---- MODULE Spec2Model ----
(***************************************************************************)
(* Print-shop job tracker.                                                 *)
(*   app.py     Sheets-backed application (viewer page + admin page)       *)
(*   admin.py   CSV-backed admin script (jobs.csv)                         *)
(*   viewer.py  CSV-backed viewer script (jobs.csv)                        *)
(* Every browser interaction runs the whole script once; a script run is   *)
(* split at the calls that read or write the shared store, so that runs of *)
(* different browser sessions interleave between those calls.              *)
(***************************************************************************)
EXTENDS Integers, Sequences, FiniteSets, TLC

\* Largest number of job rows a store is allowed to grow to.
MaxRows == 2

\* Browser sessions of staff members.
Sessions == {"s1", "s2"}

----------------------------------------------------------------------------
\* Program constants

STATUS_STEPS == <<"Pending", "Checking Document", "Printing", "Ready for Pickup", "Completed">>

expected_header == <<"job_id", "client_name", "file_name", "client_email", "status", "created_at", "qr_path">>

ADMIN_PASSWORD == "secret"

\* Column numbers of the Jobs worksheet (position in expected_header).
ColJobId == 1
ColStatus == 5
ColQr == 7

----------------------------------------------------------------------------
\* Inputs typed or selected in the forms, and values read from the clock

Passwords == {"secret", "guess"}
ClientNames == {"", "Ana Cruz"}
FileNames == {"", "invoice.pdf"}
ClientEmails == {"", "ana@x.com", "Ana@X.com", "bob@x.com"}
Times == {"2024-05-01 09:00:00", "2024-05-01 09:00:01"}
Mails == {"off", "ok", "failed"}

\* What the staff may enter in app.py: every input of the forms.
AllInputs == [passwords |-> Passwords, clients |-> ClientNames, files |-> FileNames,
              emails |-> ClientEmails, times |-> {"2024-05-01 09:00:00"}, mails |-> Mails]

\* Valid forms for one client only, no SMTP: for the specifications that
\* study status updates and the viewer.
PlainInputs == [passwords |-> {"secret"}, clients |-> {"Ana Cruz"}, files |-> {"invoice.pdf"},
                emails |-> {"ana@x.com"}, times |-> {"2024-05-01 09:00:00"}, mails |-> {"off"}]

\* Valid forms for one client, with right and wrong passwords at the login
\* wall.
AuthInputs == [passwords |-> Passwords, clients |-> {"Ana Cruz"}, files |-> {"invoice.pdf"},
               emails |-> {"ana@x.com"}, times |-> {"2024-05-01 09:00:00"}, mails |-> {"off"}]

\* Forms of one staff session whose e-mails differ in letter case or carry
\* blanks around them (st.text_input hands the text over as typed).
LookupInputs == [passwords |-> {"secret"}, clients |-> {"Ana Cruz"}, files |-> {"invoice.pdf"},
                 emails |-> {"Ana@X.com", " bob@x.com "}, times |-> {"2024-05-01 09:00:00"},
                 mails |-> {"off"}]

\* What the client may type into the viewer page, or what the QR link carries.
LookupKeys == {"ana@x.com", "Ana@X.com", " bob@x.com "}

\* str.strip() on the e-mail texts of the model.
Strip(e) ==
    CASE e = " bob@x.com " -> "bob@x.com"
      [] OTHER -> e

\* str.lower() on the e-mail texts of the model.
Lower(e) ==
    CASE e = "Ana@X.com" -> "ana@x.com"
      [] OTHER -> e

\* f"MCADD_{str(job_no).zfill(3)}": the digits of job_no, left-padded with
\* zeros to at least three digits.
RECURSIVE Digits(_)
Digits(n) == IF n < 10 THEN <<n>> ELSE Append(Digits(n \div 10), n % 10)

Zfill3(n) ==
    LET d == Digits(n)
    IN  IF Len(d) >= 3 THEN d
        ELSE [k \in 1..3 |-> IF k <= 3 - Len(d) THEN 0 ELSE d[k - (3 - Len(d))]]

\* Variant: the padded number is cut to two characters.
JobIdTruncated(job_no) == <<"MCADD_">> \o SubSeq(Zfill3(job_no), 1, 2)

JobId(job_no) == <<"MCADD_">> \o Zfill3(job_no)

\* The direct image URL ImgBB returns for the k-th upload it accepts.
ImgUrl(k) == <<"https://i.ibb.co/", k>>

StartsWithHttp(url) == url # <<>> /\ url[1] = "https://i.ibb.co/"

\* f'=IMAGE("{public_url}")'
QrFormula(public_url) == <<"=IMAGE(\"", public_url, "\")">>

EmptyCell == <<>>

----------------------------------------------------------------------------
VARIABLES
    deployment,  \* which program serves: "sheets" (app.py) or "csv" (admin.py, viewer.py)
    sheet,       \* rows of worksheet "Jobs", row 1 being the header row
    csv,         \* jobs.csv: [exists, rows]
    logged_in,   \* st.session_state.logged_in of each session
    pc,          \* where each session's current script run stands
    loc,         \* local variables of each session's current script run
    msg,         \* the message the last finished script run showed the session
    uploads,     \* client e-mails of the images ImgBB accepted, in upload order
    qr_files,    \* names of the QR images written to the local qrcodes folder
    sent,        \* e-mails delivered through SMTP: <<to, job_id>>
    view         \* what the client's viewer page last rendered

vars == <<deployment, sheet, csv, logged_in, pc, loc, msg, uploads, qr_files, sent, view>>

NoLocals == [job_id |-> <<>>, client |-> "", file_name |-> "", client_email |-> "",
             status |-> "", created_at |-> "", public_url |-> <<>>, last_row |-> 0,
             df |-> <<>>, i |-> 0]

NoView == [page |-> "none", key |-> "", found |-> 0, job_id |-> <<>>,
           status |-> "", current_index |-> 0, colors |-> <<>>]

----------------------------------------------------------------------------
\* Worksheet "Jobs" (app.py)

\* ws.get_all_records(): the rows under the header row, keyed by the header.
Record(row) == [job_id |-> row[1], client_name |-> row[2], file_name |-> row[3],
                client_email |-> row[4], status |-> row[5], created_at |-> row[6],
                qr_path |-> row[7]]

get_all_records(ws) == [k \in 1..(Len(ws) - 1) |-> Record(ws[k + 1])]

\* ws.get_all_values(): every row, the header row included.
get_all_values(ws) == ws

load_jobs_df(ws) == get_all_records(ws)

\* Worksheet preparation at the top of every script run: a worksheet whose
\* first row is not the expected header is cleared and given the header.
PrepareWorksheet(ws) ==
    IF ws = <<>> \/ ws[1] # expected_header THEN <<expected_header>> ELSE ws

\* find_existing_qr_for_email: the URL in the first row of that e-mail whose
\* qr_path holds an IMAGE formula around an http URL or an http URL itself;
\* <<>> stands for None.
UrlOfCell(qr_cell) ==
    IF qr_cell # <<>> /\ qr_cell[1] = "=IMAGE(\"" /\ Len(qr_cell) >= 3
          /\ StartsWithHttp(qr_cell[2])
    THEN qr_cell[2]
    ELSE IF StartsWithHttp(qr_cell) THEN qr_cell ELSE <<>>

find_existing_qr_for_email(ws, email) ==
    LET records == get_all_records(ws)
        hits == {k \in 1..Len(records) :
                    /\ Lower(Strip(records[k].client_email)) = Lower(Strip(email))
                    /\ UrlOfCell(records[k].qr_path) # <<>>}
    IN  IF hits = {} THEN <<>>
        ELSE UrlOfCell(records[CHOOSE k \in hits : \A j \in hits : k <= j].qr_path)

\* Variant: the records are enumerated from row 1.
FindRowFromOne(ws, job_id) ==
    LET records == [k \in 1..(Len(ws) - 1) |-> ws[k + 1]]
        hits == {k \in 1..Len(records) : records[k][1] = job_id}
    IN  IF hits = {} THEN 0 ELSE CHOOSE k \in hits : \A j \in hits : k <= j

\* Variant: without a match the scan ends on the last row.
FindRowOrLast(ws, job_id) ==
    LET records == [k \in 1..(Len(ws) - 1) |-> ws[k + 1]]
        hits == {k \in 1..Len(records) : records[k][1] = job_id}
    IN  IF hits = {} THEN Len(ws) ELSE (CHOOSE k \in hits : \A j \in hits : k <= j) + 1

\* update_status_in_sheet, the scan: the sheet row of the first record whose
\* job_id is the one asked for (records are enumerated from row 2); 0 when
\* no record matches.
FindRow(ws, job_id) ==
    LET records == get_all_records(ws)
        hits == {k \in 1..Len(records) : records[k].job_id = job_id}
    IN  IF hits = {} THEN 0 ELSE (CHOOSE k \in hits : \A j \in hits : k <= j) + 1

\* Variant: the write covers the next column too.
update_cell_wide(ws, row, col, value) ==
    IF row \in 1..Len(ws)
    THEN [ws EXCEPT ![row] = [c \in 1..Len(ws[row]) |->
                                 IF c \in {col, col + 1} THEN value ELSE ws[row][c]]]
    ELSE ws

\* ws.update_cell(row, col, value) and ws.update("G<row>:G<row>", [[value]])
update_cell(ws, row, col, value) ==
    IF row \in 1..Len(ws) THEN [ws EXCEPT ![row][col] = value] ELSE ws

\* email.replace("@", "_at_").replace(".", "_") on the e-mail texts of the
\* model, and the path of the local QR image named after it.
safe_name(email) ==
    CASE email = "ana@x.com" -> "ana_at_x_com"
      [] email = "Ana@X.com" -> "Ana_at_X_com"
      [] email = "bob@x.com" -> "bob_at_x_com"
      [] email = " bob@x.com " -> " bob_at_x_com "
      [] OTHER -> email

local_path(name) == <<"qrcodes/", name, ".png">>

----------------------------------------------------------------------------
\* Nothing has run yet: worksheet "Jobs" is blank, jobs.csv does not exist,
\* no browser session is open.
Blank(d) ==
    /\ deployment = d
    /\ sheet = <<>>
    /\ csv = [exists |-> FALSE, rows |-> <<>>]
    /\ logged_in = [s \in Sessions |-> FALSE]
    /\ pc = [s \in Sessions |-> "closed"]
    /\ loc = [s \in Sessions |-> NoLocals]
    /\ msg = [s \in Sessions |-> ""]
    /\ uploads = <<>>
    /\ qr_files = {}
    /\ sent = {}
    /\ view = NoView

InitApp == Blank("sheets")

InitCsv == Blank("csv")

Init == InitApp \/ InitCsv

\* Number of create-job runs that have passed validation and not yet ended.
Creating == Cardinality({s \in Sessions : pc[s] \in {"find_qr", "upload", "append", "count", "write_qr", "save"}})

Finish(s, m) ==
    /\ pc' = [pc EXCEPT ![s] = "idle"]
    /\ loc' = [loc EXCEPT ![s] = NoLocals]
    /\ msg' = [msg EXCEPT ![s] = m]

\* First script run of a session: the page is rendered, no button pressed.
OpenPage(s) ==
    /\ deployment = "sheets"
    /\ pc[s] = "closed"
    /\ sheet' = PrepareWorksheet(sheet)
    /\ pc' = [pc EXCEPT ![s] = "idle"]
    /\ UNCHANGED <<deployment, csv, logged_in, loc, msg, uploads, qr_files, sent, view>>

\* Variant: the flag is kept in one place for all sessions.
LoginShared(s, password) ==
    /\ deployment = "sheets"
    /\ pc[s] = "idle"
    /\ ~logged_in[s]
    /\ sheet' = PrepareWorksheet(sheet)
    /\ IF password = ADMIN_PASSWORD
       THEN /\ logged_in' = [t \in Sessions |-> TRUE]
            /\ msg' = [msg EXCEPT ![s] = ""]
       ELSE /\ logged_in' = logged_in
            /\ msg' = [msg EXCEPT ![s] = "Incorrect password."]
    /\ UNCHANGED <<deployment, csv, pc, loc, uploads, qr_files, sent, view>>

\* admin_page, the login wall: button "Login" with a typed password. A
\* successful login reruns the script at once, which drops its message.
Login(s, password) ==
    /\ deployment = "sheets"
    /\ pc[s] = "idle"
    /\ ~logged_in[s]
    /\ sheet' = PrepareWorksheet(sheet)
    /\ IF password = ADMIN_PASSWORD
       THEN /\ logged_in' = [logged_in EXCEPT ![s] = TRUE]
            /\ msg' = [msg EXCEPT ![s] = ""]
       ELSE /\ logged_in' = logged_in
            /\ msg' = [msg EXCEPT ![s] = "Incorrect password."]
    /\ UNCHANGED <<deployment, csv, pc, loc, uploads, qr_files, sent, view>>

\* Variant: the e-mail is not among the required fields.
MissingFieldNoEmail(client, file_name, client_email) == client = "" \/ file_name = ""

\* not client or not file_name or not client_email
MissingField(client, file_name, client_email) ==
    client = "" \/ file_name = "" \/ client_email = ""

\* job_no = len(df) + 1
NextJobNo(df) == Len(df) + 1

\* admin_page, Front Desk, button "Create Job": the run up to the point
\* where job_id and created_at are fixed (df was loaded at the top).
BeginCreate(s, client, file_name, client_email, now) ==
    /\ deployment = "sheets"
    /\ pc[s] = "idle"
    /\ logged_in[s]
    /\ Len(sheet) - 1 + Creating < MaxRows
    /\ sheet' = PrepareWorksheet(sheet)
    /\ LET df == load_jobs_df(sheet')
       IN  IF MissingField(client, file_name, client_email)
           THEN Finish(s, "Please provide client name, file name and client email.")
           ELSE /\ pc' = [pc EXCEPT ![s] = "find_qr"]
                /\ loc' = [loc EXCEPT ![s] =
                             [NoLocals EXCEPT !.job_id = JobId(NextJobNo(df)),
                                              !.client = client,
                                              !.file_name = file_name,
                                              !.client_email = client_email,
                                              !.created_at = now]]
                /\ msg' = [msg EXCEPT ![s] = ""]
    /\ UNCHANGED <<deployment, csv, logged_in, uploads, qr_files, sent, view>>

\* existing_url = find_existing_qr_for_email(client_email)
FindExistingQr(s) ==
    /\ pc[s] = "find_qr"
    /\ LET existing_url == find_existing_qr_for_email(sheet, loc[s].client_email)
       IN  IF existing_url # <<>>
           THEN /\ loc' = [loc EXCEPT ![s].public_url = existing_url]
                /\ pc' = [pc EXCEPT ![s] = "append"]
           ELSE /\ loc' = loc
                /\ pc' = [pc EXCEPT ![s] = "upload"]
    /\ UNCHANGED <<deployment, sheet, csv, logged_in, msg, uploads, qr_files, sent, view>>

\* generate_qr_and_upload_for_email: the image is drawn and saved locally,
\* and ImgBB accepts the upload.
UploadOk(s) ==
    /\ pc[s] = "upload"
    /\ qr_files' = qr_files \cup {local_path(safe_name(loc[s].client_email))}
    /\ uploads' = Append(uploads, loc[s].client_email)
    /\ loc' = [loc EXCEPT ![s].public_url = ImgUrl(Len(uploads) + 1)]
    /\ pc' = [pc EXCEPT ![s] = "append"]
    /\ UNCHANGED <<deployment, sheet, csv, logged_in, msg, sent, view>>

\* generate_qr_and_upload_for_email: upload_to_imgbb raises; the handler's
\* except clause shows the error and the run ends.
UploadFails(s) ==
    /\ pc[s] = "upload"
    /\ qr_files' = qr_files \cup {local_path(safe_name(loc[s].client_email))}
    /\ Finish(s, "Error creating job")
    /\ UNCHANGED <<deployment, sheet, csv, logged_in, uploads, sent, view>>

\* Variant: the row carries the status held in the run's locals.
NewRowLocalStatus(l) == <<l.job_id, l.client, l.file_name, l.client_email, l.status, l.created_at, EmptyCell>>

\* ws.append_row([job_id, client, file_name, client_email, "Pending", created_at, ""])
NewRow(l) == <<l.job_id, l.client, l.file_name, l.client_email, "Pending", l.created_at, EmptyCell>>

AppendRow(s) ==
    /\ pc[s] = "append"
    /\ sheet' = Append(sheet, NewRow(loc[s]))
    /\ pc' = [pc EXCEPT ![s] = "count"]
    /\ UNCHANGED <<deployment, csv, logged_in, loc, msg, uploads, qr_files, sent, view>>

\* last_row = len(ws.get_all_values())
CountRows(s) ==
    /\ pc[s] = "count"
    /\ loc' = [loc EXCEPT ![s].last_row = Len(get_all_values(sheet))]
    /\ pc' = [pc EXCEPT ![s] = "write_qr"]
    /\ UNCHANGED <<deployment, sheet, csv, logged_in, msg, uploads, qr_files, sent, view>>

\* ws.update(G<last_row>, qr_formula), then the optional e-mail and the
\* closing message. mail: "off" (SMTP secrets absent), "ok" or "failed".
WriteQr(s, mail) ==
    /\ pc[s] = "write_qr"
    /\ sheet' = update_cell(sheet, loc[s].last_row, ColQr, QrFormula(loc[s].public_url))
    /\ sent' = IF mail = "ok" THEN sent \cup {<<loc[s].client_email, loc[s].job_id>>} ELSE sent
    /\ Finish(s, CASE mail = "ok" -> "Job created and emailed"
                   [] mail = "failed" -> "Job created but email failed"
                   [] OTHER -> "Job created.")
    /\ UNCHANGED <<deployment, csv, logged_in, uploads, qr_files, view>>


\* admin_page, CAD Operator, button "Update Status": the run up to the call
\* of update_status_in_sheet; chosen is one of the job ids of df.
BeginUpdate(s, k, new_status) ==
    /\ deployment = "sheets"
    /\ pc[s] = "idle"
    /\ logged_in[s]
    /\ sheet' = PrepareWorksheet(sheet)
    /\ LET df == load_jobs_df(sheet')
       IN  /\ k \in 1..Len(df)
           /\ loc' = [loc EXCEPT ![s] = [NoLocals EXCEPT !.job_id = df[k].job_id,
                                                         !.status = new_status]]
    /\ pc' = [pc EXCEPT ![s] = "upd_read"]
    /\ msg' = [msg EXCEPT ![s] = ""]
    /\ UNCHANGED <<deployment, csv, logged_in, uploads, qr_files, sent, view>>

\* update_status_in_sheet: records = ws.get_all_records() and the scan for
\* job_id; without a match it returns False and the run reports the failure.
UpdRead(s) ==
    /\ pc[s] = "upd_read"
    /\ LET i == FindRow(sheet, loc[s].job_id)
       IN  IF i = 0
           THEN Finish(s, "Failed to update status.")
           ELSE /\ loc' = [loc EXCEPT ![s].i = i]
                /\ pc' = [pc EXCEPT ![s] = "upd_write"]
                /\ msg' = msg
    /\ UNCHANGED <<deployment, sheet, csv, logged_in, uploads, qr_files, sent, view>>

\* update_status_in_sheet: ws.update_cell(i, 5, new_status); return True.
UpdWrite(s) ==
    /\ pc[s] = "upd_write"
    /\ sheet' = update_cell(sheet, loc[s].i, ColStatus, loc[s].status)
    /\ Finish(s, "Status updated.")
    /\ UNCHANGED <<deployment, csv, logged_in, uploads, qr_files, sent, view>>

\* update_status_in_sheet(job_id, new_status) called with any job id, as a
\* caller other than the selectbox of admin_page would.
CallUpdateStatus(s, job_id, new_status) ==
    /\ deployment = "sheets"
    /\ pc[s] = "idle"
    /\ logged_in[s]
    /\ sheet' = PrepareWorksheet(sheet)
    /\ loc' = [loc EXCEPT ![s] = [NoLocals EXCEPT !.job_id = job_id, !.status = new_status]]
    /\ pc' = [pc EXCEPT ![s] = "upd_read"]
    /\ msg' = [msg EXCEPT ![s] = ""]
    /\ UNCHANGED <<deployment, csv, logged_in, uploads, qr_files, sent, view>>

----------------------------------------------------------------------------
\* viewer_page (app.py)

\* STATUS_STEPS.index(current_status), 0 when the status is no stage.
IndexOf(steps, x) ==
    IF \E k \in 1..Len(steps) : steps[k] = x
    THEN (CHOOSE k \in 1..Len(steps) : steps[k] = x /\ \A j \in 1..(k - 1) : steps[j] # x) - 1
    ELSE 0

\* Variant: the current stage is coloured as done.
StepColorsInclusive(steps, current_index) ==
    [k \in 1..Len(steps) |->
        IF k - 1 <= current_index THEN "#0A3B99" ELSE "#D3D3D3"]

\* The colour of each stage's circle: done, current, not reached.
StepColors(steps, current_index) ==
    [k \in 1..Len(steps) |->
        IF k - 1 < current_index THEN "#0A3B99"
        ELSE IF k - 1 = current_index THEN "#FFD800"
        ELSE "#D3D3D3"]

\* df[df["client_email"].astype(str).str.lower() == email_input.strip().lower()]
UserJobs(df, email_input) ==
    SelectSeq(df, LAMBDA r : Lower(r.client_email) = Lower(Strip(email_input)))

FirstWithId(jobs, job_id) ==
    jobs[CHOOSE k \in 1..Len(jobs) :
            jobs[k].job_id = job_id /\ \A j \in 1..(k - 1) : jobs[j].job_id # job_id]

\* The record a job id selects: the first one carrying it.
LookupJob(ws, job_id) == FirstWithId(load_jobs_df(ws), job_id)

\* The client opens the viewer page with an e-mail and selects the k-th of
\* the jobs listed for it.
Viewer(email_input, k) ==
    /\ deployment = "sheets"
    /\ sheet' = PrepareWorksheet(sheet)
    /\ LET df == load_jobs_df(sheet')
           user_jobs == UserJobs(df, email_input)
       IN  IF email_input = ""
           THEN k = 1 /\ view' = [NoView EXCEPT !.page = "Enter the same email"]
           ELSE IF df = <<>>
           THEN k = 1 /\ view' = [NoView EXCEPT !.page = "No jobs found.", !.key = email_input]
           ELSE IF user_jobs = <<>>
           THEN k = 1 /\ view' = [NoView EXCEPT !.page = "No job orders found for this email.",
                                                !.key = email_input]
           ELSE /\ k \in 1..Len(user_jobs)
                /\ \E selected \in {FirstWithId(user_jobs, user_jobs[k].job_id)} :
                   \E current_index \in {IndexOf(STATUS_STEPS, selected.status)} :
                       view' = [page |-> "Status Progress",
                                key |-> email_input,
                                found |-> Len(user_jobs),
                                job_id |-> selected.job_id,
                                status |-> selected.status,
                                current_index |-> current_index,
                                colors |-> StepColors(STATUS_STEPS, current_index)]
    /\ UNCHANGED <<deployment, csv, logged_in, pc, loc, msg, uploads, qr_files, sent>>

----------------------------------------------------------------------------
\* admin.py and viewer.py over jobs.csv

AdminStatuses == <<"Pending", "Checking Document", "Printing", "Ready for Pick Up", "Completed">>

\* uuid.uuid4().hex[:8].upper(): eight hexadecimal digits drawn at random.
Tokens == {<<"1A2B3C4D">>, <<"9F8E7D6C">>}

\* Lines 21-22: jobs.csv is created with the header line when it is missing.
EnsureCsv(f) == IF f.exists THEN f ELSE [exists |-> TRUE, rows |-> <<>>]

\* pd.read_csv(CSV_FILE, dtype=str).fillna("")
read_csv(f) == f.rows

\* First script run of a session: the form is rendered, nothing submitted.
AdminOpen(s) ==
    /\ deployment = "csv"
    /\ pc[s] = "closed"
    /\ csv' = EnsureCsv(csv)
    /\ pc' = [pc EXCEPT ![s] = "idle"]
    /\ UNCHANGED <<deployment, sheet, logged_in, loc, msg, uploads, qr_files, sent, view>>

AdminRow(l) == [job_id |-> l.job_id, client_name |-> l.client, description |-> l.file_name,
                status |-> l.status, created_at |-> l.created_at,
                qr_path |-> local_path(l.job_id[1])]

\* not client or not descr
MissingFieldCsv(client, descr) == client = "" \/ descr = ""

\* Form "create_job" submitted: the run from the top (df is read from
\* jobs.csv) to the point where the QR image of the new id is saved.
AdminSubmit(s, client, descr, status, new_id, now) ==
    /\ deployment = "csv"
    /\ pc[s] = "idle"
    /\ Len(csv.rows) + Creating < MaxRows
    /\ csv' = EnsureCsv(csv)
    /\ IF MissingFieldCsv(client, descr)
       THEN /\ Finish(s, "Client name and description are required.")
            /\ qr_files' = qr_files
       ELSE /\ qr_files' = qr_files \cup {local_path(new_id[1])}
            /\ pc' = [pc EXCEPT ![s] = "save"]
            /\ loc' = [loc EXCEPT ![s] = [NoLocals EXCEPT !.job_id = new_id,
                                                          !.client = client,
                                                          !.file_name = descr,
                                                          !.status = status,
                                                          !.created_at = now,
                                                          !.df = read_csv(csv')]]
            /\ msg' = [msg EXCEPT ![s] = ""]
    /\ UNCHANGED <<deployment, sheet, logged_in, uploads, sent, view>>

\* df = pd.concat([df, new_row]); df.to_csv(CSV_FILE): the file is rewritten
\* from the rows this run read at its top plus the new row.
AdminSave(s) ==
    /\ pc[s] = "save"
    /\ csv' = [exists |-> TRUE, rows |-> Append(loc[s].df, AdminRow(loc[s]))]
    /\ Finish(s, "Job created")
    /\ UNCHANGED <<deployment, sheet, logged_in, uploads, qr_files, sent, view>>

\* viewer.py: the page opened with ?job_id=<job_param>, or (<<>>) without it.
ViewerCsv(job_param) ==
    /\ deployment = "csv"
    /\ LET df == read_csv(csv)
           hits == {k \in 1..Len(df) : df[k].job_id = job_param}
       IN  IF ~csv.exists
           THEN view' = [NoView EXCEPT !.page = "jobs.csv not found."]
           ELSE IF job_param = <<>>
           THEN view' = [NoView EXCEPT !.page = "No Job ID found in the link."]
           ELSE IF hits = {}
           THEN view' = [NoView EXCEPT !.page = "Invalid or unknown Job ID."]
           ELSE LET row == df[CHOOSE k \in hits : \A j \in hits : k <= j]
                IN  view' = [NoView EXCEPT !.page = "Job Found", !.job_id = row.job_id,
                                           !.status = row.status]
    /\ UNCHANGED <<deployment, sheet, csv, logged_in, pc, loc, msg, uploads, qr_files, sent>>

----------------------------------------------------------------------------
\* Next-state relations, over the sessions S and the input sets given

AppCreate(S, in) ==
    \E s \in S :
        \/ OpenPage(s)
        \/ \E password \in in.passwords : Login(s, password)
        \/ \E client \in in.clients, file_name \in in.files,
              client_email \in in.emails, now \in in.times :
                BeginCreate(s, client, file_name, client_email, now)
        \/ FindExistingQr(s)
        \/ UploadOk(s)
        \/ UploadFails(s)
        \/ AppendRow(s)
        \/ CountRows(s)
        \/ \E mail \in in.mails : WriteQr(s, mail)

AppUpdate(S) ==
    \E s \in S :
        \/ \E k \in 1..MaxRows, new_status \in {STATUS_STEPS[n] : n \in 1..Len(STATUS_STEPS)} :
                BeginUpdate(s, k, new_status)
        \/ UpdRead(s)
        \/ UpdWrite(s)

AppView(emails) ==
    \E email_input \in emails, k \in 1..MaxRows : Viewer(email_input, k)

CsvNext(S, statuses, times) ==
    \/ \E s \in S :
        \/ AdminOpen(s)
        \/ \E client \in ClientNames, descr \in FileNames, status \in statuses,
              new_id \in Tokens, now \in times :
                AdminSubmit(s, client, descr, status, new_id, now)
        \/ AdminSave(s)
    \/ \E job_param \in Tokens \cup {<<>>} : ViewerCsv(job_param)

\* app.py with two staff sessions creating jobs.
NextApp == AppCreate(Sessions, AllInputs)

SpecApp == InitApp /\ [][NextApp]_vars

\* app.py with two staff sessions creating jobs and updating their status.
NextStatus == AppCreate(Sessions, PlainInputs) \/ AppUpdate(Sessions)

SpecStatus == InitApp /\ [][NextStatus]_vars

\* app.py with one staff session and the client's viewer.
NextView ==
    \/ AppCreate({"s1"}, PlainInputs)
    \/ AppUpdate({"s1"})
    \/ AppView({"", "ana@x.com", "bob@x.com"})

SpecView == InitApp /\ [][NextView]_vars

\* app.py with update_status_in_sheet called with job ids present or not.
NextUpdate ==
    \/ AppCreate(Sessions, PlainInputs)
    \/ \E s \in Sessions :
        \/ \E n \in 1..(MaxRows + 1), new_status \in {STATUS_STEPS[1], STATUS_STEPS[3]} :
                CallUpdateStatus(s, JobId(n), new_status)
        \/ UpdRead(s)
        \/ UpdWrite(s)

SpecUpdate == InitApp /\ [][NextUpdate]_vars

\* app.py with two browser sessions at the login wall and behind it,
\* creating jobs and moving them to "Printing".
NextAuth ==
    \/ AppCreate(Sessions, AuthInputs)
    \/ \E s \in Sessions :
        \/ \E k \in 1..MaxRows : BeginUpdate(s, k, STATUS_STEPS[3])
        \/ UpdRead(s)
        \/ UpdWrite(s)

SpecAuth == InitApp /\ [][NextAuth]_vars

\* app.py with one staff session creating jobs under e-mails as typed, and
\* the client's viewer.
NextLookup == AppCreate({"s1"}, LookupInputs) \/ AppView(LookupKeys)

SpecLookup == InitApp /\ [][NextLookup]_vars

\* admin.py and viewer.py with two staff sessions.
NextCsv == CsvNext(Sessions, {AdminStatuses[1], AdminStatuses[3], AdminStatuses[5]},
                   {"2024-05-01 09:00:00"})

SpecCsv == InitCsv /\ [][NextCsv]_vars

\* Either deployment.
Next == NextApp \/ NextCsv

Spec == Init /\ [][Next]_vars

----------------------------------------------------------------------------
\* Properties

\* The job records of whichever store the deployment uses.
SheetRecords == get_all_records(sheet)

CreateMissingMsg == "Please provide client name, file name and client email."
AdminMissingMsg == "Client name and description are required."

\* C1: in every reachable state no two records of the store have the same
\* job_id, whatever the number and interleaving of create-job actions.
C1_UniqueJobIds ==
    /\ \A i, j \in 1..Len(SheetRecords) :
          i # j => SheetRecords[i].job_id # SheetRecords[j].job_id
    /\ \A i, j \in 1..Len(csv.rows) :
          i # j => csv.rows[i].job_id # csv.rows[j].job_id

\* The step in which session s appends its new row to the worksheet.
AppendStep(s) == pc[s] = "append" /\ pc'[s] = "count"

\* The step in which session s rewrites jobs.csv with its new row.
SaveStep(s) == pc[s] = "save" /\ pc'[s] = "idle"

\* C2 as stated: every record a create-job action produces has the first
\* stage as its status when it becomes visible in the store, in app.py and
\* in admin.py alike.
C2_CreatedPending ==
    [][\A s \in Sessions :
          /\ AppendStep(s) => sheet'[Len(sheet')][ColStatus] = STATUS_STEPS[1]
          /\ SaveStep(s) => csv'.rows[Len(csv'.rows)].status = STATUS_STEPS[1]]_vars

\* C2 amended: a record created through app.py has the first stage as its
\* status when it becomes visible; a record created through admin.py has
\* the stage selected in the form's "Initial status" field.
C2_CreatedStatus ==
    [][\A s \in Sessions :
          /\ AppendStep(s) =>
                /\ Len(sheet') = Len(sheet) + 1
                /\ sheet'[Len(sheet')][ColStatus] = STATUS_STEPS[1]
                /\ sheet'[Len(sheet')][ColJobId] = loc[s].job_id
          /\ SaveStep(s) =>
                /\ csv'.rows[Len(csv'.rows)].status = loc[s].status
                /\ csv'.rows[Len(csv'.rows)].job_id = loc[s].job_id]_vars

\* A record has been created through admin.py with the status "Completed"
\* selected in the form.
C2_Witness ==
    /\ deployment = "csv"
    /\ \E k \in 1..Len(csv.rows) : csv.rows[k].status = "Completed"
    /\ \E s \in Sessions : msg[s] = "Job created"

\* C3: when the image upload fails during job creation, the job's record is
\* in the store all the same, without a usable QR reference.
C3_RecordKeptOnUploadFailure ==
    [][\A s \in Sessions :
          (pc[s] = "upload" /\ pc'[s] = "idle") =>
              \E k \in 1..(Len(sheet') - 1) :
                  /\ get_all_records(sheet')[k].job_id = loc[s].job_id
                  /\ get_all_records(sheet')[k].client_name = loc[s].client
                  /\ get_all_records(sheet')[k].client_email = loc[s].client_email
                  /\ UrlOfCell(get_all_records(sheet')[k].qr_path) = <<>>]_vars

\* The step in which update_status_in_sheet writes the cell and returns True.
WriteStep(s) == pc[s] = "upd_write" /\ pc'[s] = "idle"

\* C4: once update_status_in_sheet(job_id, s) has returned True, looking the
\* job_id up gives a record whose status is s, whatever stage s is and
\* whatever the stage was.
C4_UpdateThenLookup ==
    [][\A s \in Sessions :
          WriteStep(s) =>
              /\ \E k \in 1..(Len(sheet') - 1) : get_all_records(sheet')[k].job_id = loc[s].job_id
              /\ LookupJob(sheet', loc[s].job_id).status = loc[s].status]_vars

\* An update has returned True and left a job at a stage other than the first.
C4_Witness ==
    \E s \in Sessions :
        /\ msg[s] = "Status updated."
        /\ \E k \in 1..Len(SheetRecords) : SheetRecords[k].status = "Ready for Pickup"
        /\ \E k \in 1..Len(SheetRecords) : SheetRecords[k].status = "Pending"

\* The step in which update_status_in_sheet scans the records for job_id.
ScanStep(s) == pc[s] = "upd_read" /\ pc'[s] # "upd_read"

\* C5: update_status_in_sheet called with a job_id no record carries
\* returns False, which the run reports as a failure, and changes no cell.
C5_UnknownIdNoChange ==
    [][\A s \in Sessions :
          (ScanStep(s) /\ \A k \in 1..Len(SheetRecords) : SheetRecords[k].job_id # loc[s].job_id) =>
              /\ pc'[s] = "idle"
              /\ msg'[s] = "Failed to update status."
              /\ sheet' = sheet]_vars

\* An update of an unknown job id has been reported as failed while the
\* store holds records.
C5_Witness ==
    \E s \in Sessions : msg[s] = "Failed to update status." /\ Len(SheetRecords) >= 1

\* C6: a status update changes nothing but the status cell of the record
\* whose job_id matches.
C6_UpdateFrame ==
    [][\A s \in Sessions :
          WriteStep(s) =>
              /\ Len(sheet') = Len(sheet)
              /\ \A r \in 1..Len(sheet) :
                    /\ Len(sheet'[r]) = Len(sheet[r])
                    /\ \A c \in 1..Len(sheet[r]) :
                          sheet'[r][c] # sheet[r][c] =>
                              /\ c = ColStatus
                              /\ r >= 2
                              /\ sheet[r][ColJobId] = loc[s].job_id]_vars

\* An update has changed the status of one of two records.
C6_Witness ==
    \E s \in Sessions :
        /\ msg[s] = "Status updated."
        /\ Len(SheetRecords) = 2
        /\ SheetRecords[1].status # SheetRecords[2].status

\* C7: a record that is in the store is in the store in every later state.
C7_RecordsPersist ==
    [][/\ \A k \in 1..Len(csv.rows) :
             \E j \in 1..Len(csv'.rows) : csv'.rows[j].job_id = csv.rows[k].job_id
       /\ \A k \in 2..Len(sheet) :
             /\ k <= Len(sheet')
             /\ sheet'[k][ColJobId] = sheet[k][ColJobId]]_vars

\* The step in which session s is told that a required field is empty.
RejectStep(s) ==
    /\ msg[s] \notin {CreateMissingMsg, AdminMissingMsg}
    /\ msg'[s] \in {CreateMissingMsg, AdminMissingMsg}

\* C8: a create-job action with an empty required field reports the
\* validation error and does nothing else: no row, no QR image, no upload,
\* no e-mail; and no run goes on, nor any record exists, with such a field.
C8_ValidationNoEffect ==
    /\ [][\A s \in Sessions :
             RejectStep(s) =>
                 /\ sheet' = sheet
                 /\ csv' = csv
                 /\ qr_files' = qr_files
                 /\ uploads' = uploads
                 /\ sent' = sent]_vars
    /\ [](\A s \in Sessions :
             /\ pc[s] \in {"find_qr", "upload", "append", "count", "write_qr"} =>
                   loc[s].client # "" /\ loc[s].file_name # "" /\ loc[s].client_email # ""
             /\ pc[s] = "save" => loc[s].client # "" /\ loc[s].file_name # "")
    /\ [](/\ \A k \in 1..Len(SheetRecords) :
                /\ SheetRecords[k].client_name # ""
                /\ SheetRecords[k].file_name # ""
                /\ SheetRecords[k].client_email # ""
          /\ \A k \in 1..Len(csv.rows) :
                csv.rows[k].client_name # "" /\ csv.rows[k].description # "")

\* A session has been told that a required field is empty while the store
\* holds a record.
C8_Witness ==
    \E s \in Sessions :
        /\ msg[s] \in {CreateMissingMsg, AdminMissingMsg}
        /\ Len(SheetRecords) + Len(csv.rows) >= 1

DoneStages(colors) == {k \in 1..Len(colors) : colors[k] = "#0A3B99"}

\* C9 as stated: the status view of a job at "Printing" shows "Printing" as
\* the current stage and exactly one earlier stage as complete.
C9_PrintingOnePrior ==
    (view.page = "Status Progress" /\ view.status = "Printing") =>
        /\ view.colors[3] = "#FFD800"
        /\ Cardinality(DoneStages(view.colors)) = 1

\* C9 amended: the status view of a job at "Printing" shows "Printing" as
\* the current stage and exactly the two stages before it ("Pending" and
\* "Checking Document") as complete; in every status view a stage is shown
\* complete exactly when its position is before the current stage's.
C9_PrintingTwoPrior ==
    /\ (view.page = "Status Progress" /\ view.status = "Printing") =>
          /\ view.colors[3] = "#FFD800"
          /\ DoneStages(view.colors) = {1, 2}
    /\ view.page = "Status Progress" =>
          /\ STATUS_STEPS[view.current_index + 1] = view.status
          /\ \A k \in 1..Len(STATUS_STEPS) :
                /\ view.colors[k] = "#0A3B99" <=> k < view.current_index + 1
                /\ view.colors[k] = "#FFD800" <=> k = view.current_index + 1

\* The viewer shows a job whose status is "Printing".
C9_Witness == view.page = "Status Progress" /\ view.status = "Printing"

\* C10: two create-job actions run one after the other from an empty store
\* leave two records with different job ids.
C10_BackToBackDistinct ==
    Len(SheetRecords) >= 2 => SheetRecords[1].job_id # SheetRecords[2].job_id

\* Two create-job runs have ended and the store holds their two records.
C10_Witness ==
    /\ Len(SheetRecords) = 2
    /\ \A s \in Sessions : pc[s] \in {"closed", "idle"}
    /\ SheetRecords[1].qr_path # <<>>
    /\ SheetRecords[2].qr_path # <<>>

\* The records whose stored client_email equals key when letter case is
\* ignored.
SameEmail(records, key) == {k \in 1..Len(records) : Lower(records[k].client_email) = Lower(key)}

\* C11: a viewer lookup with key k returns exactly the records whose stored
\* client_email equals k ignoring letter case, so a job created with e-mail e
\* is returned by a lookup with e; and whenever find_existing_qr_for_email
\* finds a QR for an e-mail, the viewer lookup with that e-mail returns a
\* record carrying it.
C11_EmailLookup ==
    /\ [][view' # view =>
             view'.found = Cardinality(SameEmail(get_all_records(sheet'), view'.key))]_vars
    /\ [](\A e \in LookupKeys :
             /\ Len(UserJobs(SheetRecords, e)) = Cardinality(SameEmail(SheetRecords, e))
             /\ find_existing_qr_for_email(sheet, e) # <<>> =>
                   \E k \in 1..Len(UserJobs(SheetRecords, e)) :
                       UrlOfCell(UserJobs(SheetRecords, e)[k].qr_path)
                           = find_existing_qr_for_email(sheet, e))

\* The step in which session s writes the QR formula and ends its create run.
QrStep(s) == pc[s] = "write_qr" /\ pc'[s] = "idle"

\* C12: a session appends a record or changes a status only while its own
\* logged_in flag is true, and the records change in no step but one of a
\* logged-in session; a session's flag becomes true only in a step in which
\* that session submits ADMIN_PASSWORD at the login wall, a wrong password
\* changes no flag, and no step changes the flag of a second session.
C12_AuthPerSession ==
    [][/\ \A s \in Sessions :
             /\ (AppendStep(s) \/ QrStep(s) \/ WriteStep(s)) => logged_in[s] /\ logged_in'[s]
             /\ (logged_in'[s] /\ ~logged_in[s]) =>
                   /\ Login(s, ADMIN_PASSWORD)
                   /\ \A t \in Sessions \ {s} : logged_in'[t] = logged_in[t]
             /\ (msg'[s] = "Incorrect password." /\ msg[s] # "Incorrect password.") =>
                   logged_in' = logged_in
             /\ logged_in[s] => logged_in'[s]
       /\ get_all_records(sheet') # get_all_records(sheet) =>
             \E s \in Sessions : logged_in[s] /\ pc'[s] # pc[s]]_vars

\* One session has logged in, created a job and moved it to "Printing" while
\* the other session, turned away with a wrong password, is still logged out.
C12_Witness ==
    \E s, t \in Sessions :
        /\ logged_in[s] /\ msg[s] = "Status updated."
        /\ ~logged_in[t] /\ msg[t] = "Incorrect password."
        /\ \E k \in 1..Len(SheetRecords) : SheetRecords[k].status = "Printing"

\* An e-mail as the one-QR-per-e-mail logic compares it: trimmed, lower case.
EmailKey(email) == Lower(Strip(email))

\* C13: in every reachable state at most one QR image has been uploaded for
\* each client e-mail (trimmed, letter case ignored), and all records of one
\* client e-mail that have a non-empty qr_path refer to the same image URL,
\* whatever the number and interleaving of create-job actions.
C13_OneQrPerEmail ==
    /\ \A i, j \in 1..Len(uploads) :
          i # j => EmailKey(uploads[i]) # EmailKey(uploads[j])
    /\ \A i, j \in 1..Len(SheetRecords) :
          (/\ EmailKey(SheetRecords[i].client_email) = EmailKey(SheetRecords[j].client_email)
           /\ SheetRecords[i].qr_path # EmptyCell
           /\ SheetRecords[j].qr_path # EmptyCell) =>
              UrlOfCell(SheetRecords[i].qr_path) = UrlOfCell(SheetRecords[j].qr_path)

\* The first six cells of the row a create run appends.
OwnCells(l) == SubSeq(NewRow(l), 1, 6)

\* C14: the step that ends a create run with a success message leaves a row
\* carrying the run's own job with the IMAGE formula of the run's QR in its
\* qr_path, and changes no row but one carrying the run's own job, whatever
\* the interleaving of the create runs of concurrent sessions.
C14_QrInOwnRow ==
    [][\A s \in Sessions :
          QrStep(s) =>
              /\ \E r \in 2..Len(sheet') :
                    /\ SubSeq(sheet'[r], 1, 6) = OwnCells(loc[s])
                    /\ sheet'[r][ColQr] = QrFormula(loc[s].public_url)
              /\ \A r \in 1..Len(sheet) :
                    sheet'[r] # sheet[r] => SubSeq(sheet[r], 1, 6) = OwnCells(loc[s])]_vars

====
